---- MODULE Spec2Model ----
(***************************************************************************)
(* Move tracking of the chess video analyzer (MoveTracker), with the rules *)
(* engine it calls (python-chess: piece_at, legal_moves, push, copy)       *)
(* modelled as far as the tracker uses it.                                 *)
(*                                                                         *)
(* A chess.Board is a record                                               *)
(*   pieces          : [0..63 -> 0..12]   0 = no piece, 1..6 = white       *)
(*                     P N B R Q K, 7..12 = black P N B R Q K              *)
(*   turn            : BOOLEAN            chess.WHITE = TRUE               *)
(*   castling_rights : set of rook squares                                 *)
(*   ep_square       : a square, or NoSquare for Python's None             *)
(* A chess.Move is a record [from_square, to_square, promotion], with      *)
(* promotion = 0 for None.  Python's None (a missing board, a missing      *)
(* move) is the record None.                                               *)
(***************************************************************************)
EXTENDS Integers, Sequences, FiniteSets, TLC

VARIABLES
    game,            \* the position on the physical board (environment)
    source,          \* how snapshots get their flags: "extractor" | "engine"
    previous_board,  \* MoveTracker.previous_board
    current_board,   \* MoveTracker.current_board
    moves,           \* MoveTracker.moves
    initial_board,   \* the first snapshot the tracker was given (history)
    ret,             \* the value the last call returned
    op,              \* the last operation
    shown,           \* what the camera showed in the last call (history)
    arg,             \* the board the last call was given (history)
    calls,           \* number of diffing track_move calls so far
    position,        \* the chess.Board object handed to the validator
    given,           \* that board as it was before the last validator call (history)
    verdict,         \* what validate_position returned last: valid and issues
    reasonable,      \* what is_reasonable_position returned last (FALSE before a call)
    gen_moves,       \* NotationGenerator.moves
    headers,         \* NotationGenerator.headers
    rendered,        \* what the last call returned, with its argument (None for a setter)
    result_set,      \* set_result or set_header("Result") has been called (history)
    status,          \* process_video: "running" | "raised" | "done"
    detected_positions,  \* process_video: the length of detected_positions
    frame_count,     \* process_video: frame_count
    accepted,        \* number of snapshots validate_position accepted (history)
    video,           \* what VideoInput.source names: its kind and its frames
    cap,             \* VideoInput.cap: "none" | "opened" | "failed" | "released"
    pos,             \* the index of the frame cap.read() delivers next
    video_ret,       \* what the last VideoInput call returned
    reads,           \* what get_frame returned since open() last succeeded (history)
    gen,             \* the get_frames generator: "none" | "created" |
                     \* "suspended" | "exhausted" | "closed"
    yielded,         \* the frames the generator has yielded
    disturbed        \* VideoInput was called while the generator was suspended

tracker_vars == <<game, source, previous_board, current_board, moves,
                  initial_board, ret, shown, arg, calls>>

validator_vars == <<position, given, verdict, reasonable>>

notation_vars == <<gen_moves, headers, rendered, result_set>>

cli_vars == <<status, detected_positions, frame_count, accepted>>

video_vars == <<video, cap, pos, video_ret, reads, gen, yielded, disturbed>>

vars == <<game, source, previous_board, current_board, moves, initial_board,
          ret, op, shown, arg, calls, position, given, verdict, reasonable,
          gen_moves, headers, rendered, result_set, status,
          detected_positions, frame_count, accepted, video, cap, pos,
          video_ret, reads, gen, yielded, disturbed>>

----------------------------------------------------------------------------
(* chess constants *)

WHITE == TRUE
BLACK == FALSE

PAWN == 1
KNIGHT == 2
BISHOP == 3
ROOK == 4
QUEEN == 5
KING == 6

None == [none |-> TRUE]
NoSquare == -1

SQUARES == 0 .. 63

square(file, rank) == rank * 8 + file
square_file(s) == s % 8
square_rank(s) == s \div 8

A1 == square(0, 0)
C1 == square(2, 0)
D1 == square(3, 0)
E1 == square(4, 0)
F1 == square(5, 0)
G1 == square(6, 0)
H1 == square(7, 0)
A8 == square(0, 7)
C8 == square(2, 7)
D8 == square(3, 7)
E8 == square(4, 7)
F8 == square(5, 7)
G8 == square(6, 7)
H8 == square(7, 7)

Abs(x) == IF x < 0 THEN -x ELSE x
Sgn(x) == IF x < 0 THEN -1 ELSE IF x > 0 THEN 1 ELSE 0
Max(x, y) == IF x < y THEN y ELSE x

Piece(type, color) == IF color THEN type ELSE type + 6
piece_type(p) == IF p > 6 THEN p - 6 ELSE p
piece_color(p) == p <= 6

Move(from, to, promo) ==
    [from_square |-> from, to_square |-> to, promotion |-> promo]

\* chess.Move.__bool__: a move is falsy only when it is the null move
MoveTruthy(m) ==
    m # None /\ (m.from_square # 0 \/ m.to_square # 0 \/ m.promotion # 0)

\* truth value of an Optional[int] square: None and square 0 (a1) are falsy
SquareTruthy(s) == s # NoSquare /\ s # 0

----------------------------------------------------------------------------
(* rules engine: attacks *)

\* the squares strictly between two aligned squares are all empty
ClearPath(pieces, a, t) ==
    LET df == square_file(t) - square_file(a)
        dr == square_rank(t) - square_rank(a)
        n == Max(Abs(df), Abs(dr))
        step == Sgn(dr) * 8 + Sgn(df)
    IN \A k \in 1 .. (n - 1) : pieces[a + k * step] = 0

\* the piece on square a attacks square t
Attacks(pieces, a, t) ==
    LET p == pieces[a]
        pt == piece_type(p)
        df == square_file(t) - square_file(a)
        dr == square_rank(t) - square_rank(a)
    IN /\ a # t
       /\ p # 0
       /\ CASE pt = PAWN -> Abs(df) = 1 /\ dr = (IF piece_color(p) THEN 1 ELSE -1)
            [] pt = KNIGHT -> (Abs(df) = 1 /\ Abs(dr) = 2) \/ (Abs(df) = 2 /\ Abs(dr) = 1)
            [] pt = KING -> Abs(df) <= 1 /\ Abs(dr) <= 1
            [] pt = BISHOP -> Abs(df) = Abs(dr) /\ ClearPath(pieces, a, t)
            [] pt = ROOK -> (df = 0 \/ dr = 0) /\ ClearPath(pieces, a, t)
            [] pt = QUEEN -> (df = 0 \/ dr = 0 \/ Abs(df) = Abs(dr))
                             /\ ClearPath(pieces, a, t)

Occupied(pieces, color) ==
    {s \in SQUARES : pieces[s] # 0 /\ piece_color(pieces[s]) = color}

is_attacked_by(pieces, color, sq) ==
    \E a \in Occupied(pieces, color) : Attacks(pieces, a, sq)

----------------------------------------------------------------------------
(* rules engine: push *)

Rank1 == {s \in SQUARES : square_rank(s) = 0}
Rank8 == {s \in SQUARES : square_rank(s) = 7}
BackRank(color) == IF color THEN Rank1 ELSE Rank8

clean_castling_rights(b) ==
    LET castling == {r \in b.castling_rights : piece_type(b.pieces[r]) = ROOK}
        white == IF b.pieces[E1] = Piece(KING, WHITE)
                 THEN {r \in castling \cap {A1, H1} : piece_color(b.pieces[r])}
                 ELSE {}
        black == IF b.pieces[E8] = Piece(KING, BLACK)
                 THEN {r \in castling \cap {A8, H8} : ~piece_color(b.pieces[r])}
                 ELSE {}
    IN white \cup black

\* Board._to_chess960: a king's two-square move is turned into king-takes-rook
to_chess960(b, m) ==
    IF m.from_square = E1 /\ piece_type(b.pieces[E1]) = KING
    THEN IF m.to_square = G1 /\ piece_type(b.pieces[G1]) # ROOK THEN Move(E1, H1, 0)
         ELSE IF m.to_square = C1 /\ piece_type(b.pieces[C1]) # ROOK THEN Move(E1, A1, 0)
         ELSE m
    ELSE IF m.from_square = E8 /\ piece_type(b.pieces[E8]) = KING
    THEN IF m.to_square = G8 /\ piece_type(b.pieces[G8]) # ROOK THEN Move(E8, H8, 0)
         ELSE IF m.to_square = C8 /\ piece_type(b.pieces[C8]) # ROOK THEN Move(E8, A8, 0)
         ELSE m
    ELSE m

\* Board.push(move): the board after the move.  push does not test legality;
\* it requires a piece on the from-square (PushDefined).
PushDefined(b, m) == b.pieces[m.from_square] # 0

push(b, m0) ==
    LET m == to_chess960(b, m0)
        from == m.from_square
        to == m.to_square
        pt == piece_type(b.pieces[from])
        captured == b.pieces[to]
        diff == to - from
        rights0 == clean_castling_rights(b) \ {from, to}
        rights == IF pt = KING THEN rights0 \ BackRank(b.turn)
                  ELSE IF piece_type(captured) = KING
                  THEN IF b.turn /\ square_rank(to) = 7 THEN rights0 \ Rank8
                       ELSE IF ~b.turn /\ square_rank(to) = 0 THEN rights0 \ Rank1
                       ELSE rights0
                  ELSE rights0
        up2 == pt = PAWN /\ diff = 16 /\ square_rank(from) = 1
        down2 == pt = PAWN /\ diff = -16 /\ square_rank(from) = 6
        isEp == /\ pt = PAWN /\ ~up2 /\ ~down2
                /\ to = b.ep_square
                /\ Abs(diff) \in {7, 9}
                /\ captured = 0
        epCaptured == b.ep_square + (IF b.turn THEN -8 ELSE 8)
        lifted == [s \in SQUARES |->
                     IF s = from \/ (isEp /\ s = epCaptured) THEN 0 ELSE b.pieces[s]]
        pt2 == IF m.promotion # 0 THEN m.promotion ELSE pt
        castling == pt2 = KING /\ lifted[to] # 0 /\ piece_color(lifted[to]) = b.turn
        a_side == square_file(to) < square_file(from)
        kingTo == IF a_side THEN (IF b.turn THEN C1 ELSE C8) ELSE (IF b.turn THEN G1 ELSE G8)
        rookTo == IF a_side THEN (IF b.turn THEN D1 ELSE D8) ELSE (IF b.turn THEN F1 ELSE F8)
        placed == IF castling
                  THEN [s \in SQUARES |->
                          IF s = kingTo THEN Piece(KING, b.turn)
                          ELSE IF s = rookTo THEN Piece(ROOK, b.turn)
                          ELSE IF s = from \/ s = to THEN 0
                          ELSE lifted[s]]
                  ELSE [lifted EXCEPT ![to] = Piece(pt2, b.turn)]
    IN [pieces |-> placed,
        turn |-> ~b.turn,
        castling_rights |-> rights,
        ep_square |-> IF up2 THEN from + 8 ELSE IF down2 THEN from - 8 ELSE NoSquare]

----------------------------------------------------------------------------
(* rules engine: legal moves *)

PROMOTIONS == {QUEEN, ROOK, BISHOP, KNIGHT}

\* a pawn move to `to`: four promotion moves on the first or last rank
PawnMoves(from, to) ==
    IF square_rank(to) \in {0, 7}
    THEN {Move(from, to, pr) : pr \in PROMOTIONS}
    ELSE {Move(from, to, 0)}

\* Board.generate_castling_moves
generate_castling_moves(b) ==
    LET king == IF b.turn THEN E1 ELSE E8
        backrank == BackRank(b.turn)
        noKing == [b.pieces EXCEPT ![king] = 0]
        Candidate(rook) ==
            LET a_side == rook < king
                kingTo == square(IF a_side THEN 2 ELSE 6, square_rank(king))
                rookTo == square(IF a_side THEN 3 ELSE 5, square_rank(king))
                lo(x, y) == IF x < y THEN x ELSE y
                hi(x, y) == IF x < y THEN y ELSE x
                kingPath == {s \in SQUARES : lo(king, kingTo) < s /\ s < hi(king, kingTo)}
                rookPath == {s \in SQUARES : lo(rook, rookTo) < s /\ s < hi(rook, rookTo)}
                moved == [noKing EXCEPT ![rook] = 0, ![rookTo] = b.pieces[rook]]
            IN /\ \A s \in (kingPath \cup rookPath \cup {kingTo, rookTo}) \ {king, rook} :
                      b.pieces[s] = 0
               /\ \A s \in kingPath \cup {king} : ~is_attacked_by(noKing, ~b.turn, s)
               /\ ~is_attacked_by(moved, ~b.turn, kingTo)
    IN {Move(king, square(IF rook < king THEN 2 ELSE 6, square_rank(king)), 0) :
            rook \in {r \in clean_castling_rights(b) \cap backrank : Candidate(r)}}

\* Board.generate_pseudo_legal_moves (castling apart)
generate_pseudo_legal_moves(b) ==
    LET ours == Occupied(b.pieces, b.turn)
        fwd == IF b.turn THEN 8 ELSE -8
        pawns == {s \in ours : piece_type(b.pieces[s]) = PAWN}
        pieceMoves ==
            UNION {{Move(a, t, 0) : t \in {t \in SQUARES : /\ t \notin ours
                                                           /\ Attacks(b.pieces, a, t)}} :
                   a \in ours \ pawns}
        captures ==
            UNION {UNION {PawnMoves(a, t) :
                          t \in {t \in SQUARES : /\ b.pieces[t] # 0
                                                 /\ piece_color(b.pieces[t]) # b.turn
                                                 /\ Attacks(b.pieces, a, t)}} :
                   a \in pawns}
        singles == {a \in pawns : a + fwd \in SQUARES /\ b.pieces[a + fwd] = 0}
        doubles == {a \in singles : /\ a + 2 * fwd \in SQUARES
                                    /\ b.pieces[a + 2 * fwd] = 0
                                    /\ square_rank(a + 2 * fwd) \in
                                         (IF b.turn THEN {2, 3} ELSE {5, 4})}
        ep == IF b.ep_square # NoSquare /\ b.ep_square # 0 /\ b.pieces[b.ep_square] = 0
              THEN {Move(a, b.ep_square, 0) :
                      a \in {a \in pawns : /\ Attacks(b.pieces, a, b.ep_square)
                                           /\ square_rank(a) = (IF b.turn THEN 4 ELSE 3)}}
              ELSE {}
    IN pieceMoves \cup captures
       \cup UNION {PawnMoves(a, a + fwd) : a \in singles}
       \cup {Move(a, a + 2 * fwd, 0) : a \in doubles}
       \cup ep

\* the last element a loop over `changes` (ascending squares) assigns
LastOf(S) == IF S = {} THEN NoSquare ELSE CHOOSE s \in S : \A t \in S : t <= s

\* Board.king(color): the king of that colour on the highest square
king(pieces, color) == LastOf({s \in SQUARES : pieces[s] = Piece(KING, color)})

\* Board._is_safe: the move does not leave the mover's king attacked
is_safe(b, m) ==
    LET k == king(b.pieces, b.turn)
    IN \/ k = NoSquare
       \/ ~is_attacked_by(push(b, m).pieces, ~b.turn,
                          IF m.from_square = k THEN m.to_square ELSE k)

\* Board.legal_moves: the pseudo-legal moves that do not leave the mover's
\* king (the one on the highest square, if any) attacked, and the castling moves
legal_moves(b) ==
    {m \in generate_pseudo_legal_moves(b) : is_safe(b, m)} \cup generate_castling_moves(b)

----------------------------------------------------------------------------
(* MoveTracker *)

\* _detect_move, lines 66-74: the squares whose piece differs
Changes(prev, curr) == {s \in SQUARES : prev.pieces[s] # curr.pieces[s]}

\* _compare_boards: the same piece placement on all 64 squares
CompareBoards(board1, board2) ==
    \A s \in SQUARES : board1.pieces[s] = board2.pieces[s]

\* a fallback that gives up without trying a move
FindLegalMoveNever(prev, curr) == None

\* _find_legal_move: a legal move of the previous position whose result has
\* the current placement; a placement is the result of at most one move, so
\* the first match of the enumeration is the only one
FindLegalMove(prev, curr) ==
    LET matching == {m \in legal_moves(prev) : CompareBoards(push(prev, m), curr)}
    IN IF matching = {} THEN None ELSE CHOOSE m \in matching : TRUE

\* a two-square branch that never settles the move itself
TwoSquareMoveSkipped(prev, curr, changes) == None

\* _detect_move, lines 80-105: two changed squares
TwoSquareMove(prev, curr, changes) ==
    LET vanished == {s \in changes : prev.pieces[s] # 0 /\ curr.pieces[s] = 0}
        appeared == {s \in changes : prev.pieces[s] = 0 /\ curr.pieces[s] # 0}
        from_square == LastOf(vanished)
        to_square == LastOf(appeared)
        moving_piece == prev.pieces[from_square]
        to_rank == square_rank(to_square)
        promoted_piece == curr.pieces[to_square]
    IN IF from_square # NoSquare /\ to_square # NoSquare
       THEN IF /\ piece_type(moving_piece) = PAWN
               /\ \/ (piece_color(moving_piece) = WHITE /\ to_rank = 7)
                  \/ (piece_color(moving_piece) = BLACK /\ to_rank = 0)
               /\ promoted_piece # 0
            THEN Move(from_square, to_square, piece_type(promoted_piece))
            ELSE Move(from_square, to_square, 0)
       ELSE None

\* _detect_move, lines 108-131: four changed squares
CastlingMove(prev, curr, changes) ==
    LET Gone(pt) == {s \in changes : /\ piece_type(prev.pieces[s]) = pt
                                     /\ curr.pieces[s] = 0}
        Come(pt) == {s \in changes : /\ prev.pieces[s] = 0
                                     /\ piece_type(curr.pieces[s]) = pt}
        king_from == LastOf(Gone(KING))
        king_to == LastOf(Come(KING))
        rook_from == LastOf(Gone(ROOK))
        rook_to == LastOf(Come(ROOK))
    IN IF /\ SquareTruthy(king_from) /\ SquareTruthy(king_to)
          /\ SquareTruthy(rook_from) /\ SquareTruthy(rook_to)
          /\ Abs(square_file(king_from) - square_file(king_to)) = 2
       THEN Move(king_from, king_to, 0)
       ELSE None

\* _detect_move, lines 134-154: three changed squares.  The third branch of
\* the loop (line 145) has the condition of the first (line 141), so it is
\* never taken and captured_square stays None.
EnPassantMove(prev, curr, changes) ==
    LET goneP == {s \in changes : /\ piece_type(prev.pieces[s]) = PAWN
                                  /\ curr.pieces[s] = 0}
        comeP == {s \in changes : /\ prev.pieces[s] = 0
                                  /\ piece_type(curr.pieces[s]) = PAWN}
        pawn_from == LastOf(goneP)
        pawn_to == LastOf(comeP)
        captured_square == LastOf({s \in goneP : s \notin goneP})
    IN IF /\ SquareTruthy(pawn_from) /\ SquareTruthy(pawn_to)
          /\ SquareTruthy(captured_square)
          /\ Abs(square_file(pawn_from) - square_file(pawn_to)) = 1
       THEN Move(pawn_from, pawn_to, 0)
       ELSE None

\* _detect_move
DetectMove(prev, curr) ==
    LET changes == Changes(prev, curr)
        n == Cardinality(changes)
        two == TwoSquareMove(prev, curr, changes)
        four == CastlingMove(prev, curr, changes)
        three == EnPassantMove(prev, curr, changes)
    IN IF n = 0 THEN None
       ELSE IF n = 2 /\ two # None THEN two
       ELSE IF n = 4 /\ four # None THEN four
       ELSE IF n = 3 /\ three # None THEN three
       ELSE FindLegalMove(prev, curr)

\* a tracker that keeps the last move only
RecordLast(ms, move) == IF move # [none |-> TRUE] THEN <<move>> ELSE ms

\* a tracker that records whatever _detect_move returned
RecordAlways(ms, move) == Append(ms, move)

\* track_move, lines 54-55: the move is recorded when it is truthy
Record(ms, move) == IF MoveTruthy(move) THEN Append(ms, move) ELSE ms

----------------------------------------------------------------------------
(* PositionValidator *)

\* a validation issue: the message with the values formatted into it
Issue(text, color_name, value) ==
    [issue |-> text, color |-> color_name, value |-> value]

\* number of pieces of a type and colour on the board
Count(pieces, type, color) ==
    Cardinality({s \in SQUARES : pieces[s] = Piece(type, color)})

\* the squares of S in ascending order, as a loop over them visits them
RECURSIVE Ascending(_)
Ascending(S) ==
    IF S = {} THEN <<>>
    ELSE LET lo == CHOOSE s \in S : \A t \in S : s <= t
         IN <<lo>> \o Ascending(S \ {lo})

\* Board.is_check: the king of the side to move is attacked
is_check(b) ==
    /\ king(b.pieces, b.turn) # NoSquare
    /\ is_attacked_by(b.pieces, ~b.turn, king(b.pieces, b.turn))

\* _validate_kings: the white count is tested first and ends the check
validate_kings(b, issues) ==
    LET white_king_count == Count(b.pieces, KING, WHITE)
        black_king_count == Count(b.pieces, KING, BLACK)
    IN IF white_king_count # 1
       THEN [ok |-> FALSE,
             issues |-> Append(issues, Issue("Invalid king count", "white", white_king_count))]
       ELSE IF black_king_count # 1
       THEN [ok |-> FALSE,
             issues |-> Append(issues, Issue("Invalid king count", "black", black_king_count))]
       ELSE [ok |-> TRUE, issues |-> issues]

\* piece counts that already object to a count at its limit
CountIssuesAtLimit(pieces, color) ==
    LET color_name == IF color = WHITE THEN "white" ELSE "black"
        n(type) == Count(pieces, type, color)
        total_pieces == n(PAWN) + n(KNIGHT) + n(BISHOP) + n(ROOK) + n(QUEEN) + n(KING)
        One(cond, text, value) == IF cond THEN <<Issue(text, color_name, value)>> ELSE <<>>
    IN One(n(PAWN) >= 8, "Too many pawns", n(PAWN))
       \o One(n(KNIGHT) >= 10, "Too many knights", n(KNIGHT))
       \o One(n(BISHOP) >= 10, "Too many bishops", n(BISHOP))
       \o One(n(ROOK) >= 10, "Too many rooks", n(ROOK))
       \o One(n(QUEEN) >= 9, "Too many queens", n(QUEEN))
       \o One(total_pieces >= 16, "Too many pieces", total_pieces)

\* the issues _validate_piece_counts raises for one colour, in its order
CountIssues(pieces, color) ==
    LET color_name == IF color = WHITE THEN "white" ELSE "black"
        n(type) == Count(pieces, type, color)
        total_pieces == n(PAWN) + n(KNIGHT) + n(BISHOP) + n(ROOK) + n(QUEEN) + n(KING)
        One(cond, text, value) == IF cond THEN <<Issue(text, color_name, value)>> ELSE <<>>
    IN One(n(PAWN) > 8, "Too many pawns", n(PAWN))
       \o One(n(KNIGHT) > 10, "Too many knights", n(KNIGHT))
       \o One(n(BISHOP) > 10, "Too many bishops", n(BISHOP))
       \o One(n(ROOK) > 10, "Too many rooks", n(ROOK))
       \o One(n(QUEEN) > 9, "Too many queens", n(QUEEN))
       \o One(total_pieces > 16, "Too many pieces", total_pieces)

\* _validate_piece_counts
validate_piece_counts(b, issues) ==
    LET raised == CountIssues(b.pieces, WHITE) \o CountIssues(b.pieces, BLACK)
    IN [ok |-> raised = <<>>, issues |-> issues \o raised]

\* a pawn placement check that looks at the first rank only
validate_pawn_placement_first_rank(b, issues) ==
    LET first == Ascending({s \in Rank1 : b.pieces[s] # 0 /\ piece_type(b.pieces[s]) = PAWN})
        raised == [i \in 1 .. Len(first) |-> Issue("Pawn on first rank at", "", first[i])]
    IN [ok |-> raised = <<>>, issues |-> issues \o raised]

\* _validate_pawn_placement
validate_pawn_placement(b, issues) ==
    LET Pawns(rank) == {s \in rank : b.pieces[s] # 0 /\ piece_type(b.pieces[s]) = PAWN}
        first == Ascending(Pawns(Rank1))
        last == Ascending(Pawns(Rank8))
        raised == [i \in 1 .. Len(first) |-> Issue("Pawn on first rank at", "", first[i])]
                  \o [i \in 1 .. Len(last) |-> Issue("Pawn on last rank at", "", last[i])]
    IN [ok |-> raised = <<>>, issues |-> issues \o raised]

\* a check-state check that fails without raising an issue
validate_check_state_silent(b, issues) ==
    [ok |-> ~is_check([b EXCEPT !.turn = ~b.turn]), issues |-> issues, board |-> b]

\* a check-state check that leaves the turn toggled when it finds a check
validate_check_state_toggled(b, issues) ==
    LET toggled == [b EXCEPT !.turn = ~b.turn]
    IN IF is_check(toggled)
       THEN [ok |-> FALSE,
             issues |-> Append(issues, Issue("The side not to move is in check", "", 0)),
             board |-> toggled]
       ELSE [ok |-> TRUE, issues |-> issues, board |-> b]

\* _validate_check_state: the turn is toggled, is_check is asked, and the
\* turn is set back on both paths; `board` is the board object afterwards
validate_check_state(b, issues) ==
    LET side_to_move == b.turn
        toggled == [b EXCEPT !.turn = ~side_to_move]
        restored == [toggled EXCEPT !.turn = side_to_move]
    IN IF is_check(toggled)
       THEN [ok |-> FALSE,
             issues |-> Append(issues, Issue("The side not to move is in check", "", 0)),
             board |-> restored]
       ELSE [ok |-> TRUE, issues |-> issues, board |-> restored]

\* validate_position: the checks in order, the first failing one ends the
\* validation; `board` is the board object after the call
validate_position(b) ==
    LET kings == validate_kings(b, <<>>)
        counts == validate_piece_counts(b, kings.issues)
        pawns == validate_pawn_placement(b, counts.issues)
        check == validate_check_state(b, pawns.issues)
    IN IF ~kings.ok THEN [valid |-> FALSE, issues |-> kings.issues, board |-> b]
       ELSE IF ~counts.ok THEN [valid |-> FALSE, issues |-> counts.issues, board |-> b]
       ELSE IF ~pawns.ok THEN [valid |-> FALSE, issues |-> pawns.issues, board |-> b]
       ELSE IF ~check.ok THEN [valid |-> FALSE, issues |-> check.issues, board |-> check.board]
       ELSE [valid |-> Len(check.issues) = 0, issues |-> check.issues, board |-> check.board]

\* material of a colour as is_reasonable_position sums it
Material(pieces, color) ==
    Count(pieces, PAWN, color) * 1 + Count(pieces, KNIGHT, color) * 3
    + Count(pieces, BISHOP, color) * 3 + Count(pieces, ROOK, color) * 5
    + Count(pieces, QUEEN, color) * 9

\* a plausibility check that already flags a difference of 15
is_reasonable_position_at_15(b) ==
    /\ Count(b.pieces, KING, WHITE) = 1 /\ Count(b.pieces, KING, BLACK) = 1
    /\ Abs(Material(b.pieces, WHITE) - Material(b.pieces, BLACK)) < 15

\* is_reasonable_position
is_reasonable_position(b) ==
    LET white_material == Material(b.pieces, WHITE)
        black_material == Material(b.pieces, BLACK)
        material_diff == Abs(white_material - black_material)
    IN IF Count(b.pieces, KING, WHITE) # 1 \/ Count(b.pieces, KING, BLACK) # 1
       THEN FALSE
       ELSE IF material_diff > 15 THEN FALSE
       ELSE TRUE

----------------------------------------------------------------------------
(* rules engine: game state of a board with its move stack *)

\* chess.Board(): the standard starting position
StartingPosition ==
    LET back == <<ROOK, KNIGHT, BISHOP, QUEEN, KING, BISHOP, KNIGHT, ROOK>>
    IN [pieces |-> [s \in SQUARES |->
                      CASE square_rank(s) = 0 -> Piece(back[square_file(s) + 1], WHITE)
                        [] square_rank(s) = 1 -> Piece(PAWN, WHITE)
                        [] square_rank(s) = 6 -> Piece(PAWN, BLACK)
                        [] square_rank(s) = 7 -> Piece(back[square_file(s) + 1], BLACK)
                        [] OTHER -> 0],
        turn |-> WHITE,
        castling_rights |-> {A1, H1, A8, H8},
        ep_square |-> NoSquare]

\* Board.is_en_passant
is_en_passant(b, m) ==
    /\ b.ep_square = m.to_square
    /\ piece_type(b.pieces[m.from_square]) = PAWN
    /\ Abs(m.to_square - m.from_square) \in {7, 9}
    /\ b.pieces[m.to_square] = 0

\* any(Board.generate_legal_moves()): the search stops at the first legal move
has_legal_move(b) ==
    \/ \E m \in generate_pseudo_legal_moves(b) : is_safe(b, m)
    \/ generate_castling_moves(b) # {}

\* Board.has_legal_en_passant: any(Board.generate_legal_ep())
has_legal_en_passant(b) ==
    /\ b.ep_square # NoSquare
    /\ \E a \in Occupied(b.pieces, b.turn) :
         /\ piece_type(b.pieces[a]) = PAWN
         /\ Attacks(b.pieces, a, b.ep_square)
         /\ Move(a, b.ep_square, 0) \in legal_moves(b)

\* Board.is_zeroing: a pawn or a piece of the other side on either square
is_zeroing(b, m) ==
    \E s \in {m.from_square, m.to_square} :
        /\ b.pieces[s] # 0
        /\ piece_type(b.pieces[s]) = PAWN \/ piece_color(b.pieces[s]) # b.turn

\* Board._reduces_castling_rights
reduces_castling_rights(b, m) ==
    LET cr == clean_castling_rights(b)
        touched == {m.from_square, m.to_square}
    IN \/ touched \cap cr # {}
       \/ cr \cap Rank1 # {} /\ \E s \in touched : b.pieces[s] = Piece(KING, WHITE)
       \/ cr \cap Rank8 # {} /\ \E s \in touched : b.pieces[s] = Piece(KING, BLACK)

\* Board.is_irreversible
is_irreversible(b, m) ==
    is_zeroing(b, m) \/ reduces_castling_rights(b, m) \/ has_legal_en_passant(b)

\* Board._transposition_key
transposition_key(b) ==
    <<b.pieces, b.turn, clean_castling_rights(b),
      IF has_legal_en_passant(b) THEN b.ep_square ELSE NoSquare>>

\* the boards a move stack goes through: the board before the first move,
\* after the first move, .., after the last move
RECURSIVE Positions(_, _)
Positions(b, ms) ==
    IF ms = <<>> THEN <<b>>
    ELSE <<b>> \o Positions(push(b, Head(ms)), Tail(ms))

\* Board.halfmove_clock after the moves: the moves since the last zeroing one
halfmove_clock(ps, ms) ==
    LET zeroing == {i \in 1 .. Len(ms) : is_zeroing(ps[i], ms[i])}
    IN Len(ms) - (IF zeroing = {} THEN 0 ELSE CHOOSE i \in zeroing : \A j \in zeroing : j <= i)

\* Board.is_checkmate, Board.is_stalemate
is_checkmate(b) == is_check(b) /\ ~has_legal_move(b)
is_stalemate(b) == ~is_check(b) /\ ~has_legal_move(b)

\* Board.has_insufficient_material(color)
has_insufficient_material(pieces, color) ==
    LET own == Occupied(pieces, color)
        Has(S, types) == \E s \in S : piece_type(pieces[s]) \in types
        all == {s \in SQUARES : pieces[s] # 0}
        bishops == {s \in all : piece_type(pieces[s]) = BISHOP}
        Dark(s) == (square_file(s) + square_rank(s)) % 2 = 0
    IN IF Has(own, {PAWN, ROOK, QUEEN}) THEN FALSE
       ELSE IF Has(own, {KNIGHT})
       THEN /\ Cardinality(own) <= 2
            /\ ~Has(Occupied(pieces, ~color), {PAWN, KNIGHT, BISHOP, ROOK})
       ELSE IF Has(own, {BISHOP})
       THEN /\ (\A s \in bishops : Dark(s)) \/ (\A s \in bishops : ~Dark(s))
            /\ ~Has(all, {PAWN, KNIGHT})
       ELSE TRUE

\* Board.is_insufficient_material
is_insufficient_material(b) ==
    has_insufficient_material(b.pieces, WHITE) /\ has_insufficient_material(b.pieces, BLACK)

\* Board.is_fifty_moves, for the board after the moves
is_fifty_moves(ps, ms) ==
    halfmove_clock(ps, ms) >= 100 /\ has_legal_move(ps[Len(ps)])

\* Board.is_repetition, for the board after the moves: two earlier boards
\* with the key of the last one, no irreversible move in between
is_repetition(ps, ms) ==
    LET n == Len(ms)
        same == {j \in 1 .. n :
                   /\ \A i \in j .. n : ~is_irreversible(ps[i], ms[i])
                   /\ transposition_key(ps[j]) = transposition_key(ps[n + 1])}
    IN Cardinality(same) >= 2

----------------------------------------------------------------------------
(* NotationGenerator *)

\* Board.is_castling: the king goes two files or takes its own rook
is_castling(b, m) ==
    /\ piece_type(b.pieces[m.from_square]) = KING
    /\ \/ Abs(square_file(m.from_square) - square_file(m.to_square)) > 1
       \/ (b.pieces[m.to_square] # 0 /\ piece_color(b.pieces[m.to_square]) = b.turn)

\* Board.is_capture
is_capture(b, m) ==
    \/ b.pieces[m.to_square] # 0 /\ piece_color(b.pieces[m.to_square]) # b.turn
    \/ is_en_passant(b, m)

\* Board.san, disambiguation: the other pieces of the same kind that may
\* legally go to the same square
Rivals(b, m) ==
    {a \in SQUARES \ {m.from_square} :
        /\ b.pieces[a] = b.pieces[m.from_square]
        /\ piece_type(b.pieces[a]) # PAWN
        /\ Attacks(b.pieces, a, m.to_square)
        /\ Move(a, m.to_square, 0) \in legal_moves(b)}

\* Board.san, suffix: "#" for mate, "+" for check
Suffix(after) ==
    IF ~is_check(after) THEN "" ELSE IF has_legal_move(after) THEN "+" ELSE "#"

\* the SAN text of a castling move
CastlingSan(m, suffix) ==
    [piece |-> 0, from_file |-> -1, from_rank |-> -1, capture |-> FALSE,
     to |-> NoSquare, promotion |-> 0,
     castling |-> IF square_file(m.to_square) < square_file(m.from_square)
                  THEN "O-O-O" ELSE "O-O",
     suffix |-> suffix]

\* the SAN text of any other move: the file is shown for a capturing pawn, and
\* for a piece with rivals on its rank or with none on its file; the rank is
\* shown for a piece with rivals on its file
PieceSan(pt, m, capture, rivals, suffix) ==
    LET on_rank == \E a \in rivals : square_rank(a) = square_rank(m.from_square)
        on_file == \E a \in rivals : square_file(a) = square_file(m.from_square)
    IN [piece |-> pt,
        from_file |-> IF (pt = PAWN /\ capture) \/ (rivals # {} /\ (on_rank \/ ~on_file))
                      THEN square_file(m.from_square) ELSE -1,
        from_rank |-> IF rivals # {} /\ on_file THEN square_rank(m.from_square) ELSE -1,
        capture |-> capture,
        to |-> m.to_square,
        promotion |-> m.promotion,
        castling |-> "",
        suffix |-> suffix]

\* Board.san(move): the parts of the move's SAN text.  from_file and
\* from_rank are -1 when the text does not show them, promotion is 0 when
\* there is none, castling is "" for a move that is not castling.
san(b, m) ==
    IF is_castling(b, m) THEN CastlingSan(m, Suffix(push(b, m)))
    ELSE PieceSan(piece_type(b.pieces[m.from_square]), m, is_capture(b, m),
                  Rivals(b, m), Suffix(push(b, m)))

\* the headers of a new chess.pgn.Game()
GameHeaders ==
    [Event |-> "?", Site |-> "?", Date |-> "????.??.??", Round |-> "?",
     White |-> "?", Black |-> "?", Result |-> "*"]

\* NotationGenerator.__init__: self.headers ("today" is the formatted date)
InitialHeaders ==
    [Event |-> "Chess Video Analysis", Site |-> "Unknown", Date |-> "today",
     Round |-> "?", White |-> "?", Black |-> "?", Result |-> "*"]

\* set_result: only the four result values are taken
set_result(hs, result) ==
    IF result \in {"1-0", "0-1", "1/2-1/2", "*"} THEN [hs EXCEPT !.Result = result] ELSE hs

\* the board after the last move of a move stack
Final(ps) == ps[Len(ps)]

\* get_pgn, lines 98-105: self.headers after the result derivation for the
\* replayed board; "Result" is left as it was when the game is neither mate
\* nor drawn
ResultDerived(hs, ps, ms) ==
    IF is_checkmate(Final(ps))
    THEN [hs EXCEPT !.Result = IF Final(ps).turn = WHITE THEN "0-1" ELSE "1-0"]
    ELSE IF \/ is_stalemate(Final(ps)) \/ is_insufficient_material(Final(ps))
            \/ is_fifty_moves(ps, ms) \/ is_repetition(ps, ms)
    THEN [hs EXCEPT !.Result = "1/2-1/2"]
    ELSE hs

\* get_pgn, lines 94-105: replay and result derivation
derive_result(hs, ms) == ResultDerived(hs, Positions(StartingPosition, ms), ms)

\* get_pgn, lines 83-88 and 107-113: the text of the game, as its headers,
\* its moves and the result it ends with
PgnText(hs, derived, ms, include_headers) ==
    [headers |-> IF include_headers THEN [hs EXCEPT !.Result = derived.Result]
                 ELSE GameHeaders,
     mainline |-> ms,
     result |-> IF include_headers THEN derived.Result ELSE GameHeaders.Result]

\* get_pgn, lines 79-105: self.headers after the call; a generator without
\* moves returns before the derivation
headers_after_get_pgn(hs, ms) == IF ms = <<>> THEN hs ELSE derive_result(hs, ms)

\* get_pgn: the returned text ("" without moves), for self.headers before the
\* call (hs) and after the result derivation (derived)
get_pgn(hs, derived, ms, include_headers) ==
    IF ms = <<>> THEN [empty |-> TRUE] ELSE PgnText(hs, derived, ms, include_headers)

\* Board.fen(): placement, side to move, castling rights, the en passant
\* square when an en passant capture is legal, and the two counters
fen(ps, ms, k) ==
    [pieces |-> ps[k + 1].pieces, turn |-> ps[k + 1].turn,
     castling |-> clean_castling_rights(ps[k + 1]),
     ep_square |-> IF has_legal_en_passant(ps[k + 1]) THEN ps[k + 1].ep_square
                   ELSE NoSquare,
     halfmove_clock |-> halfmove_clock(ps, SubSeq(ms, 1, k)),
     fullmove_number |-> 1 + (k \div 2)]

\* a get_fen that pushes every move, whatever the index
PushedAll(n, move_index) == n

\* get_fen, lines 130-136: the number of moves pushed for a move_index
\* (None or [index |-> k])
Pushed(n, move_index) ==
    LET index == IF move_index = None THEN n ELSE move_index.index
        capped == IF index < n THEN index ELSE n
    IN IF capped < 0 THEN 0 ELSE capped

\* get_fen(move_index)
get_fen(ms, move_index) ==
    fen(Positions(StartingPosition, ms), ms, Pushed(Len(ms), move_index))

\* get_move_list, lines 153-156
SanList(ps, ms) == [i \in 1 .. Len(ms) |-> san(ps[i], ms[i])]

\* get_move_list
get_move_list(ms) == SanList(Positions(StartingPosition, ms), ms)

\* a pairing that keeps complete pairs only
PairUpWhole(move_list) ==
    [i \in 1 .. (Len(move_list) \div 2) |->
       [white |-> move_list[2 * i - 1], black |-> move_list[2 * i]]]

\* get_move_pairs, lines 170-173: black is None in the last pair of an odd list
PairUp(move_list) ==
    [i \in 1 .. ((Len(move_list) + 1) \div 2) |->
       [white |-> move_list[2 * i - 1],
        black |-> IF 2 * i <= Len(move_list) THEN move_list[2 * i] ELSE None]]

\* get_move_pairs
get_move_pairs(ms) == PairUp(get_move_list(ms))

\* get_formatted_move_list, lines 187-194: the groups "n. white black" or
\* "n. white" that are joined with blanks
FormatPairs(move_pairs) ==
    [i \in 1 .. Len(move_pairs) |->
       IF move_pairs[i].black # None
       THEN [number |-> i, white |-> move_pairs[i].white, black |-> move_pairs[i].black]
       ELSE [number |-> i, white |-> move_pairs[i].white]]

\* get_formatted_move_list
get_formatted_move_list(ms) == FormatPairs(get_move_pairs(ms))

----------------------------------------------------------------------------
(* the game in front of the camera, and the snapshots taken of it *)

MaxCalls == 2

Place(S) == [s \in SQUARES |-> IF \E e \in S : e[1] = s
                               THEN (CHOOSE e \in S : e[1] = s)[2] ELSE 0]

\* kings and rooks on their home squares, the rook pawns blocked
CastlingGame ==
    [pieces |-> Place({<<E1, Piece(KING, WHITE)>>, <<A1, Piece(ROOK, WHITE)>>,
                       <<H1, Piece(ROOK, WHITE)>>, <<E8, Piece(KING, BLACK)>>,
                       <<A8, Piece(ROOK, BLACK)>>, <<H8, Piece(ROOK, BLACK)>>,
                       <<square(0, 1), Piece(PAWN, WHITE)>>,
                       <<square(0, 2), Piece(PAWN, BLACK)>>,
                       <<square(7, 1), Piece(PAWN, WHITE)>>,
                       <<square(7, 2), Piece(PAWN, BLACK)>>,
                       <<square(0, 6), Piece(PAWN, BLACK)>>,
                       <<square(0, 5), Piece(PAWN, WHITE)>>,
                       <<square(7, 6), Piece(PAWN, BLACK)>>,
                       <<square(7, 5), Piece(PAWN, WHITE)>>}),
     turn |-> WHITE,
     castling_rights |-> {A1, H1, A8, H8},
     ep_square |-> NoSquare]

\* pawns about to promote, to capture and to capture en passant, a knight
\* about to capture; Black to move
PawnGame ==
    [pieces |-> Place({<<H1, Piece(KING, WHITE)>>, <<H8, Piece(KING, BLACK)>>,
                       <<square(4, 4), Piece(PAWN, WHITE)>>,
                       <<square(1, 5), Piece(PAWN, WHITE)>>,
                       <<square(3, 6), Piece(PAWN, BLACK)>>,
                       <<square(1, 6), Piece(PAWN, WHITE)>>,
                       <<A8, Piece(KNIGHT, BLACK)>>,
                       <<square(2, 1), Piece(PAWN, BLACK)>>,
                       <<square(1, 0), Piece(KNIGHT, WHITE)>>}),
     turn |-> BLACK,
     castling_rights |-> {},
     ep_square |-> NoSquare]

\* a pawn each that can take the other; White to move
CaptureGame ==
    [pieces |-> Place({<<H1, Piece(KING, WHITE)>>, <<H8, Piece(KING, BLACK)>>,
                       <<square(4, 3), Piece(PAWN, WHITE)>>,
                       <<square(3, 4), Piece(PAWN, BLACK)>>}),
     turn |-> WHITE,
     castling_rights |-> {},
     ep_square |-> NoSquare]

Scenarios == {CastlingGame, PawnGame, CaptureGame}

FlagSources == {"extractor", "engine"}

\* PositionExtractor.extract_position: a cleared board (White to move, no
\* castling rights, no en passant square) with the detected pieces set
extract_position(pieces) ==
    [pieces |-> pieces, turn |-> WHITE, castling_rights |-> {},
     ep_square |-> NoSquare]

\* the chess.Board handed to the tracker for position g
Snapshot(src, g) == IF src = "extractor" THEN extract_position(g.pieces) ELSE g

\* misdetections of a placement
NoiseSquare == square(3, 3)
ScatterSquares == {square(1, 3), square(2, 4), square(5, 4), square(4, 5), square(6, 2)}

Noise(pieces) ==
    LET men == {s \in SQUARES : pieces[s] # 0 /\ piece_type(pieces[s]) # KING}
        picks == IF men = {} THEN {}
                 ELSE {CHOOSE s \in men : \A t \in men : s <= t,
                       CHOOSE s \in men : \A t \in men : t <= s}
        other(p) == Piece(IF piece_type(p) = KNIGHT THEN BISHOP ELSE KNIGHT,
                          piece_color(p))
        vanish == {[pieces EXCEPT ![s] = 0] : s \in picks}
        teleport == IF pieces[NoiseSquare] # 0 THEN {}
                    ELSE {[pieces EXCEPT ![s] = 0, ![NoiseSquare] = pieces[s]] :
                            s \in picks}
        morph == IF pieces[NoiseSquare] # 0 THEN {}
                 ELSE {[pieces EXCEPT ![s] = 0, ![NoiseSquare] = other(pieces[s])] :
                         s \in picks}
        scatter == [s \in SQUARES |->
                      IF s \in ScatterSquares
                      THEN (IF pieces[s] = 0 THEN Piece(PAWN, WHITE) ELSE 0)
                      ELSE pieces[s]]
    IN vanish \cup teleport \cup morph \cup {scatter}

\* the placement with the piece on m's origin lifted onto m's destination
\* and nothing else touched
Lifted(pieces, m) ==
    [pieces EXCEPT ![m.from_square] = 0, ![m.to_square] = pieces[m.from_square]]

\* a man's legal steps to the next file of its rank
SideSteps(g, type) ==
    {m \in legal_moves(g) :
        /\ piece_type(g.pieces[m.from_square]) = type
        /\ square_rank(m.from_square) = square_rank(m.to_square)
        /\ Abs(square_file(m.from_square) - square_file(m.to_square)) = 1
        /\ g.pieces[m.to_square] = 0}

\* the positions two moves on, after a king's step aside and a rook's step
\* aside in reply, when the camera missed the position in between
Doubles(g) ==
    UNION {{push(push(g, k), r) : r \in SideSteps(push(g, k), ROOK)} :
             k \in SideSteps(g, KING)}

\* what the camera can show next: the same position, the position after a
\* legal move of the game, the position two moves on, the king of a castling
\* move on its destination with the rook still at home, or a misdetection of
\* the position
Frames(g) ==
    {[kind |-> "repeat", move |-> None, board |-> g]}
    \cup {[kind |-> "double", move |-> None, board |-> b] : b \in Doubles(g)}
    \cup {[kind |-> "move", move |-> m, board |-> push(g, m)] : m \in legal_moves(g)}
    \cup {[kind |-> "lift", move |-> m, board |-> [g EXCEPT !.pieces = Lifted(g.pieces, m)]] :
            m \in generate_castling_moves(g)}
    \cup {[kind |-> "noise", move |-> None, board |-> [g EXCEPT !.pieces = n]] :
            n \in Noise(g.pieces)}

----------------------------------------------------------------------------
(* the games handed to the notation generator *)

File == [a |-> 0, b |-> 1, c |-> 2, d |-> 3, e |-> 4, f |-> 5, g |-> 6, h |-> 7]

\* chess.Move.from_uci for a move without promotion, ranks counted from 1
Uci(from_file, from_rank, to_file, to_rank) ==
    Move(square(from_file, from_rank - 1), square(to_file, to_rank - 1), 0)

\* 1. f3 e5 2. g4 Qh4#: White is mated
FoolsMate ==
    <<Uci(File.f, 2, File.f, 3), Uci(File.e, 7, File.e, 5), Uci(File.g, 2, File.g, 4),
      Uci(File.d, 8, File.h, 4)>>

\* 1. e4 e5 2. Qh5 Nc6 3. Bc4 Nf6 4. Qxf7#: Black is mated
ScholarsMate ==
    <<Uci(File.e, 2, File.e, 4), Uci(File.e, 7, File.e, 5), Uci(File.d, 1, File.h, 5),
      Uci(File.b, 8, File.c, 6), Uci(File.f, 1, File.c, 4), Uci(File.g, 8, File.f, 6),
      Uci(File.h, 5, File.f, 7)>>

\* the knights go out and back twice: the starting position for the third time
KnightShuffle ==
    <<Uci(File.g, 1, File.f, 3), Uci(File.g, 8, File.f, 6), Uci(File.f, 3, File.g, 1),
      Uci(File.f, 6, File.g, 8), Uci(File.g, 1, File.f, 3), Uci(File.g, 8, File.f, 6),
      Uci(File.f, 3, File.g, 1), Uci(File.f, 6, File.g, 8)>>

\* 1. d4 d5 2. c4: a game in progress
QueensGambit ==
    <<Uci(File.d, 2, File.d, 4), Uci(File.d, 7, File.d, 5), Uci(File.c, 2, File.c, 4)>>

Games == {FoolsMate, ScholarsMate, KnightShuffle, QueensGambit}

\* add_move is called up to this many moves
MaxAdded == 1

\* ms is the beginning of g, and g goes on
ProperPrefix(ms, g) == Len(ms) < Len(g) /\ ms = SubSeq(g, 1, Len(ms))

\* the move_index arguments of get_fen: None, no move, an index inside a
\* game, an index beyond every game
MoveIndexes == {None, [index |-> 0], [index |-> 1], [index |-> 99]}

----------------------------------------------------------------------------
(* the boards handed to the validator *)

MaxKings == 2

\* the men of one colour besides kings: how many of each type
Army(p, n, b, r, q) == [P |-> p, N |-> n, B |-> b, R |-> r, Q |-> q]

\* nothing; each type at its limit and one above; sixteen and seventeen
\* pieces with one king; material worth 15 and 16
Armies ==
    {Army(0, 0, 0, 0, 0),
     Army(8, 0, 0, 0, 0), Army(9, 0, 0, 0, 0),
     Army(0, 10, 0, 0, 0), Army(0, 11, 0, 0, 0),
     Army(0, 0, 10, 0, 0), Army(0, 0, 11, 0, 0),
     Army(0, 0, 0, 10, 0), Army(0, 0, 0, 11, 0),
     Army(0, 0, 0, 0, 9), Army(0, 0, 0, 0, 10),
     Army(8, 2, 2, 2, 1), Army(8, 2, 2, 2, 2),
     Army(1, 0, 0, 1, 1), Army(2, 0, 0, 1, 1)}

\* the type of the i-th man of an army: pawns first, then N, B, R, Q
ManType(a, i) ==
    IF i <= a.P THEN PAWN
    ELSE IF i <= a.P + a.N THEN KNIGHT
    ELSE IF i <= a.P + a.N + a.B THEN BISHOP
    ELSE IF i <= a.P + a.N + a.B + a.R THEN ROOK
    ELSE QUEEN

\* the square of the i-th man: a2, b2, d2 .. h2, a3 .. h3, a4 for White
\* (c2 is kept free), the mirrored squares for Black
Slot(color, i) ==
    LET w == 7 + i + (IF i >= 3 THEN 1 ELSE 0)
    IN IF color = WHITE THEN w ELSE square(square_file(w), 7 - square_rank(w))

\* the board of a recipe: wk white kings on a1, c1, .., bk black kings on
\* a8, c8, .., the army for one colour, a pawn of that colour on h1 or h8,
\* and a knight of the side to move that attacks the other side's king on
\* the a-file
BuildBoard(r) ==
    LET men == r.army.P + r.army.N + r.army.B + r.army.R + r.army.Q
        kings == {<<square(2 * (i - 1), 0), Piece(KING, WHITE)>> : i \in 1 .. r.wk}
                 \cup {<<square(2 * (i - 1), 7), Piece(KING, BLACK)>> : i \in 1 .. r.bk}
        army == {<<Slot(r.color, i), Piece(ManType(r.army, i), r.color)>> : i \in 1 .. men}
        pawn == IF r.pawn = "first" THEN {<<H1, Piece(PAWN, r.color)>>}
                ELSE IF r.pawn = "last" THEN {<<H8, Piece(PAWN, r.color)>>}
                ELSE {}
        checker == IF ~r.checker THEN {}
                   ELSE IF r.turn = WHITE THEN {<<square(2, 6), Piece(KNIGHT, WHITE)>>}
                   ELSE {<<square(2, 1), Piece(KNIGHT, BLACK)>>}
    IN [pieces |-> Place(kings \cup army \cup pawn \cup checker),
        turn |-> r.turn,
        castling_rights |-> {},
        ep_square |-> NoSquare]

Recipes ==
    [wk : 0 .. MaxKings, bk : 0 .. MaxKings, army : Armies, color : BOOLEAN,
     pawn : {"none", "first", "last"}, turn : BOOLEAN, checker : BOOLEAN]

ValidatorBoards == {BuildBoard(r) : r \in Recipes}

----------------------------------------------------------------------------
(* specification *)

\* no tracker yet, or a tracker as MoveTracker.__init__ leaves it
TrackerInit ==
    /\ previous_board = None
    /\ current_board = None
    /\ moves = <<>>
    /\ initial_board = None
    /\ ret = None
    /\ shown = None
    /\ arg = None
    /\ calls = 0

\* no board has been handed to the validator
ValidatorIdle ==
    /\ position = None
    /\ given = None
    /\ verdict = None
    /\ reasonable = FALSE

\* NotationGenerator.__init__
NotationInit ==
    /\ gen_moves = <<>>
    /\ headers = InitialHeaders
    /\ rendered = None
    /\ result_set = FALSE

\* VideoInput.__init__: no capture yet; nothing read, no generator
VideoInit ==
    /\ cap = "none"
    /\ pos = 0
    /\ video_ret = None
    /\ reads = <<>>
    /\ gen = "none"
    /\ yielded = <<>>
    /\ disturbed = FALSE

\* a VideoInput that is constructed and left alone
VideoIdle ==
    /\ video = [kind |-> "missing", frames |-> 0]
    /\ VideoInit

\* process_video before its frame loop
CliInit ==
    /\ status = "running"
    /\ detected_positions = 0
    /\ frame_count = 0
    /\ accepted = 0

Init ==
    /\ game \in Scenarios
    /\ source \in FlagSources
    /\ TrackerInit
    /\ op = "init"
    /\ ValidatorIdle
    /\ NotationInit
    /\ CliInit
    /\ VideoIdle

\* MoveTracker.set_initial_position(board)
SetInitialPosition ==
    /\ initial_board = None
    /\ LET board == Snapshot(source, game)
       IN /\ previous_board' = board
          /\ current_board' = board
          /\ moves' = <<>>
          /\ initial_board' = board
          /\ arg' = board
    /\ ret' = None
    /\ op' = "set_initial_position"
    /\ shown' = None
    /\ UNCHANGED <<game, source, calls>>
    /\ UNCHANGED validator_vars
    /\ UNCHANGED notation_vars
    /\ UNCHANGED <<cli_vars, video_vars>>

\* MoveTracker.track_move(new_board) before any board was set (lines 43-45)
TrackFirst ==
    /\ current_board = None
    /\ LET new_board == Snapshot(source, game)
       IN /\ current_board' = new_board
          /\ initial_board' = new_board
          /\ arg' = new_board
    /\ ret' = None
    /\ op' = "track_move"
    /\ shown' = None
    /\ UNCHANGED <<game, source, previous_board, moves, calls>>
    /\ UNCHANGED validator_vars
    /\ UNCHANGED notation_vars
    /\ UNCHANGED <<cli_vars, video_vars>>

\* MoveTracker.track_move(new_board) (lines 47-57)
TrackMove ==
    /\ current_board # None
    /\ calls < MaxCalls
    /\ \E f \in Frames(game) :
         LET new_board == Snapshot(source, f.board)
             move == DetectMove(current_board, new_board)
         IN /\ game' = (IF f.kind \in {"move", "double"} THEN f.board ELSE game)
            /\ previous_board' = current_board
            /\ current_board' = new_board
            /\ moves' = Record(moves, move)
            /\ ret' = move
            /\ arg' = new_board
            /\ shown' = [kind |-> f.kind, move |-> f.move]
    /\ op' = "track_move"
    /\ calls' = calls + 1
    /\ UNCHANGED <<source, initial_board>>
    /\ UNCHANGED validator_vars
    /\ UNCHANGED notation_vars
    /\ UNCHANGED <<cli_vars, video_vars>>

Next == SetInitialPosition \/ TrackFirst \/ TrackMove

Spec == Init /\ [][Next]_vars

----------------------------------------------------------------------------
(* specification of the validator *)

ValidatorInit ==
    /\ game = CastlingGame
    /\ source = "extractor"
    /\ TrackerInit
    /\ op = "init"
    /\ position \in ValidatorBoards
    /\ given = None
    /\ verdict = None
    /\ reasonable = FALSE
    /\ NotationInit
    /\ CliInit
    /\ VideoIdle

\* PositionValidator.validate_position(board), with position as the board
ValidatePosition ==
    /\ position # None
    /\ LET result == validate_position(position)
       IN /\ verdict' = [valid |-> result.valid, issues |-> result.issues]
          /\ position' = result.board
    /\ given' = position
    /\ op' = "validate_position"
    /\ UNCHANGED reasonable
    /\ UNCHANGED tracker_vars
    /\ UNCHANGED notation_vars
    /\ UNCHANGED <<cli_vars, video_vars>>

\* PositionValidator.is_reasonable_position(board), with position as the board
IsReasonablePosition ==
    /\ position # None
    /\ reasonable' = is_reasonable_position(position)
    /\ given' = position
    /\ op' = "is_reasonable_position"
    /\ UNCHANGED <<position, verdict>>
    /\ UNCHANGED tracker_vars
    /\ UNCHANGED notation_vars
    /\ UNCHANGED <<cli_vars, video_vars>>

ValidatorNext == ValidatePosition \/ IsReasonablePosition

ValidatorSpec == ValidatorInit /\ [][ValidatorNext]_vars

----------------------------------------------------------------------------
(* specification of the notation generator *)

NotationSpecInit ==
    /\ game = CastlingGame
    /\ source = "extractor"
    /\ TrackerInit
    /\ op = "init"
    /\ ValidatorIdle
    /\ NotationInit
    /\ CliInit
    /\ VideoIdle

\* add_move(move): the next move of a game
AddMove ==
    /\ Len(gen_moves) < MaxAdded
    /\ \E g \in Games :
         /\ ProperPrefix(gen_moves, g)
         /\ gen_moves' = Append(gen_moves, g[Len(gen_moves) + 1])
    /\ op' = "add_move"
    /\ rendered' = None
    /\ UNCHANGED <<headers, result_set>>
    /\ UNCHANGED <<tracker_vars, validator_vars, cli_vars, video_vars>>

\* set_moves(moves): a whole game, or no moves
SetMoves ==
    /\ \E g \in Games \cup {<<>>} : gen_moves' = g
    /\ op' = "set_moves"
    /\ rendered' = None
    /\ UNCHANGED <<headers, result_set>>
    /\ UNCHANGED <<tracker_vars, validator_vars, cli_vars, video_vars>>

\* set_header(key, value)
SetHeader ==
    /\ \E kv \in {<<"Result", "1-0">>} :
         /\ headers' = [headers EXCEPT ![kv[1]] = kv[2]]
         /\ result_set' = (result_set \/ kv[1] = "Result")
    /\ op' = "set_header"
    /\ rendered' = None
    /\ UNCHANGED gen_moves
    /\ UNCHANGED <<tracker_vars, validator_vars, cli_vars, video_vars>>

\* set_result(result)
SetResult ==
    /\ \E result \in {"1/2-1/2", "draw"} : headers' = set_result(headers, result)
    /\ result_set' = TRUE
    /\ op' = "set_result"
    /\ rendered' = None
    /\ UNCHANGED gen_moves
    /\ UNCHANGED <<tracker_vars, validator_vars, cli_vars, video_vars>>

\* get_pgn(include_headers)
GetPgn ==
    /\ headers' = headers_after_get_pgn(headers, gen_moves)
    /\ \E include_headers \in BOOLEAN :
         rendered' = [pgn |-> get_pgn(headers, headers', gen_moves, include_headers),
                      include_headers |-> include_headers]
    /\ op' = "get_pgn"
    /\ UNCHANGED <<gen_moves, result_set>>
    /\ UNCHANGED <<tracker_vars, validator_vars, cli_vars, video_vars>>

\* get_fen(move_index)
GetFen ==
    /\ \E move_index \in MoveIndexes :
         rendered' = [fen |-> get_fen(gen_moves, move_index), move_index |-> move_index]
    /\ op' = "get_fen"
    /\ UNCHANGED <<gen_moves, headers, result_set>>
    /\ UNCHANGED <<tracker_vars, validator_vars, cli_vars, video_vars>>

\* get_move_list()
GetMoveList ==
    /\ rendered' = [move_list |-> get_move_list(gen_moves)]
    /\ op' = "get_move_list"
    /\ UNCHANGED <<gen_moves, headers, result_set>>
    /\ UNCHANGED <<tracker_vars, validator_vars, cli_vars, video_vars>>

\* get_formatted_move_list()
GetFormattedMoveList ==
    /\ rendered' = [formatted |-> get_formatted_move_list(gen_moves)]
    /\ op' = "get_formatted_move_list"
    /\ UNCHANGED <<gen_moves, headers, result_set>>
    /\ UNCHANGED <<tracker_vars, validator_vars, cli_vars, video_vars>>

NotationNext ==
    \/ AddMove \/ SetMoves \/ SetHeader \/ SetResult
    \/ GetPgn \/ GetFen \/ GetMoveList \/ GetFormattedMoveList

NotationSpec == NotationSpecInit /\ [][NotationNext]_vars

----------------------------------------------------------------------------
(* specification of the command line's frame loop (process_video) *)

\* the loop processes up to this many frames
MaxFrames == 2

\* the position with a king hidden from the camera
Hidden(g) ==
    {[g EXCEPT !.pieces = [g.pieces EXCEPT ![k] = 0]] :
       k \in {king(g.pieces, WHITE), king(g.pieces, BLACK)} \ {NoSquare}}

\* what the camera can show to the frame loop
CliFrames(g) ==
    Frames(g) \cup {[kind |-> "hidden", move |-> None, board |-> b] : b \in Hidden(g)}

\* the outcome of a call that raises
Raised == [raised |-> TRUE]

\* Board.san(move) for any board: it raises when no piece stands on the
\* move's from-square
san_or_raise(b, m) ==
    IF b.pieces[m.from_square] = 0 THEN Raised ELSE [san |-> san(b, m)]

\* process_video, line 181: the notation of the detected move, asked of the
\* snapshot the frame was read into
Reported(board, move) == [board |-> board, text |-> san_or_raise(board, move)]

\* a frame loop that trusts every snapshot
IsValidAlways(result) == TRUE

\* process_video, lines 170-172: is_valid
IsValid(result) == result.valid

\* a frame loop that adds whatever track_move returned
AddDetectedAlways(ms, move) == Append(ms, move)

\* process_video, lines 179-180: add_move for a move that is truthy
AddDetected(ms, move) == IF MoveTruthy(move) THEN Append(ms, move) ELSE ms

\* process_video, lines 174-175: the first accepted snapshot
CliSetInitial(board) ==
    /\ previous_board' = board
    /\ current_board' = board
    /\ moves' = <<>>
    /\ initial_board' = board
    /\ ret' = None
    /\ op' = "set_initial_position"
    /\ detected_positions' = detected_positions + 1
    /\ UNCHANGED <<gen_moves, rendered, status>>

\* process_video, lines 176-183: a later accepted snapshot.  When line 181
\* raises, the exception leaves process_video (main, lines 290-298) and line
\* 183 is not reached.
CliTrack(board) ==
    /\ previous_board' = current_board
    /\ current_board' = board
    /\ ret' = DetectMove(current_board, board)
    /\ moves' = Record(moves, ret')
    /\ gen_moves' = AddDetected(gen_moves, ret')
    /\ rendered' = IF MoveTruthy(ret') THEN Reported(board, ret') ELSE None
    /\ status' = IF rendered' # None /\ rendered'.text = Raised THEN "raised"
                 ELSE "running"
    /\ detected_positions' = IF status' = "raised" THEN detected_positions
                             ELSE detected_positions + 1
    /\ op' = "track_move"
    /\ UNCHANGED initial_board

\* process_video, lines 233-236: a rejected snapshot
CliRejected ==
    /\ op' = "rejected"
    /\ UNCHANGED <<previous_board, current_board, moves, initial_board, ret,
                   gen_moves, rendered, status, detected_positions>>

\* process_video, line 170: result is what validate_position returned for
\* the board of the frame, with the board as the call left it
Validate(board, result) ==
    /\ given' = board
    /\ position' = result.board
    /\ verdict' = [valid |-> result.valid, issues |-> result.issues]

\* process_video, lines 139-240: one frame in which a board was found
ProcessFrame ==
    /\ status = "running"
    /\ frame_count < MaxFrames
    /\ \E f \in CliFrames(game) :
         /\ game' = (IF f.kind \in {"move", "double"} THEN f.board ELSE game)
         /\ shown' = [kind |-> f.kind, move |-> f.move]
         /\ arg' = extract_position(f.board.pieces)
    /\ Validate(arg', validate_position(arg'))
    /\ IF IsValid(verdict')
       THEN IF detected_positions = 0 THEN CliSetInitial(position')
            ELSE CliTrack(position')
       ELSE CliRejected
    /\ accepted' = accepted + (IF verdict'.valid THEN 1 ELSE 0)
    /\ frame_count' = frame_count + 1
    /\ UNCHANGED <<source, calls, reasonable, headers, result_set>>
    /\ UNCHANGED video_vars

\* process_video, lines 146, 155 and 159: a frame that is not sampled, or in
\* which no board is found
SkipFrame ==
    /\ status = "running"
    /\ frame_count < MaxFrames
    /\ frame_count' = frame_count + 1
    /\ op' = "skip"
    /\ UNCHANGED <<status, detected_positions, accepted>>
    /\ UNCHANGED <<tracker_vars, validator_vars, notation_vars, video_vars>>

\* process_video, lines 242-283: the end of the video, with --pgn and --fen
GenerateOutput ==
    /\ status = "running"
    /\ status' = "done"
    /\ headers' = IF detected_positions > 0
                  THEN headers_after_get_pgn(headers, gen_moves) ELSE headers
    /\ rendered' = IF detected_positions > 0
                   THEN [pgn |-> get_pgn(headers, headers', gen_moves, TRUE),
                         fen |-> get_fen(gen_moves, None),
                         formatted |-> get_formatted_move_list(gen_moves)]
                   ELSE None
    /\ op' = "generate_output"
    /\ UNCHANGED <<gen_moves, result_set>>
    /\ UNCHANGED <<detected_positions, frame_count, accepted>>
    /\ UNCHANGED <<tracker_vars, validator_vars, video_vars>>

CliSpecInit ==
    /\ game \in Scenarios
    /\ source = "extractor"
    /\ TrackerInit
    /\ op = "init"
    /\ ValidatorIdle
    /\ NotationInit
    /\ CliInit
    /\ VideoIdle

CliNext == ProcessFrame \/ SkipFrame \/ GenerateOutput

CliSpec == CliSpecInit /\ [][CliNext]_vars

----------------------------------------------------------------------------
(* specification of the video source (VideoInput) *)

MaxVideoFrames == 3
MaxExtraReads == 2

\* a generator that is disturbed by open() starts over and can yield without
\* end: it is followed for one frame more than the longest source has
MaxYielded == MaxVideoFrames + 1

\* what VideoInput.source can name: a video file of some number of frames,
\* a path cv2.VideoCapture cannot open, and a value its constructor raises on
Sources ==
    {[kind |-> "file", frames |-> n] : n \in 0 .. MaxVideoFrames}
        \cup {[kind |-> "missing", frames |-> 0],
              [kind |-> "invalid", frames |-> 0]}

\* the two shapes of get_frame's return value: (False, None), (True, frame)
NoFrame == [ok |-> FALSE]
Got(i) == [ok |-> TRUE, frame |-> i]

\* open, lines 37-52: self.cap after the call. A path that cannot be opened
\* leaves a capture that is not opened; an exception leaves cap as it was
open_cap(v, c) ==
    IF v.kind = "file" THEN "opened"
    ELSE IF v.kind = "missing" THEN "failed"
    ELSE c

\* open, lines 39-52: the value returned
open(v) == v.kind = "file"

\* close, lines 58-59
close_cap(c) == IF c = "none" THEN "none" ELSE "released"

\* cv2.VideoCapture.read on an opened capture standing at frame p
cap_read(v, p) == IF p < v.frames THEN Got(p) ELSE NoFrame

\* get_frame without the isOpened() test of line 68
get_frame_unchecked(c, v, p) ==
    IF c = "none" THEN NoFrame ELSE cap_read(v, p)

\* get_frame, lines 68-75
get_frame(c, v, p) ==
    IF c # "opened" THEN NoFrame ELSE cap_read(v, p)

\* the state after get_frame returned r on capture c standing at p, the
\* returns since the last open being rs
AfterGetFrame(c, p, rs, r) ==
    /\ pos' = (IF r.ok THEN p + 1 ELSE p)
    /\ reads' = (IF c = "opened" THEN Append(rs, r) ELSE rs)

\* a call from outside the generator while the generator is suspended
Disturb == disturbed' = (disturbed \/ gen = "suspended")

\* VideoInput.open
Open ==
    /\ cap' = open_cap(video, cap)
    /\ pos' = (IF open(video) THEN 0 ELSE pos)
    /\ reads' = (IF open(video) THEN <<>> ELSE reads)
    /\ video_ret' = [opened |-> open(video)]
    /\ op' = "open"
    /\ Disturb
    /\ UNCHANGED <<video, gen, yielded>>
    /\ UNCHANGED <<tracker_vars, validator_vars, notation_vars, cli_vars>>

\* VideoInput.close
Close ==
    /\ cap' = close_cap(cap)
    /\ video_ret' = None
    /\ op' = "close"
    /\ Disturb
    /\ UNCHANGED <<video, pos, reads, gen, yielded>>
    /\ UNCHANGED <<tracker_vars, validator_vars, notation_vars, cli_vars>>

\* VideoInput.get_frame
GetFrame ==
    /\ Len(reads) < video.frames + MaxExtraReads
    /\ video_ret' = get_frame(cap, video, pos)
    /\ AfterGetFrame(cap, pos, reads, video_ret')
    /\ op' = "get_frame"
    /\ Disturb
    /\ UNCHANGED <<video, cap, gen, yielded>>
    /\ UNCHANGED <<tracker_vars, validator_vars, notation_vars, cli_vars>>

\* VideoInput.get_frames: the call makes the generator and runs none of it
GetFrames ==
    /\ gen \in {"none", "exhausted", "closed"}
    /\ gen' = "created"
    /\ yielded' = <<>>
    /\ disturbed' = FALSE
    /\ video_ret' = None
    /\ op' = "get_frames"
    /\ UNCHANGED <<video, cap, pos, reads>>
    /\ UNCHANGED <<tracker_vars, validator_vars, notation_vars, cli_vars>>

\* get_frames, lines 88-94: one turn of the loop on capture c standing at
\* p: the frame is yielded, or the loop is left and close() runs
GetFramesLoop(c, p, rs) ==
    /\ video_ret' = get_frame(c, video, p)
    /\ AfterGetFrame(c, p, rs, video_ret')
    /\ IF video_ret'.ok
       THEN /\ yielded' = Append(yielded, video_ret'.frame)
            /\ gen' = "suspended"
            /\ cap' = c
       ELSE /\ yielded' = yielded
            /\ gen' = "exhausted"
            /\ cap' = close_cap(c)

\* get_frames, lines 84-94: the first next() on the generator
GetFramesFirst ==
    /\ gen = "created"
    /\ IF open(video)
       THEN GetFramesLoop(open_cap(video, cap), 0, <<>>)
       ELSE /\ cap' = open_cap(video, cap)
            /\ gen' = "exhausted"
            /\ video_ret' = None
            /\ UNCHANGED <<pos, reads, yielded>>
    /\ op' = "next"
    /\ UNCHANGED <<video, disturbed>>
    /\ UNCHANGED <<tracker_vars, validator_vars, notation_vars, cli_vars>>

\* get_frames, lines 88-94: a later next() on the generator
GetFramesResume ==
    /\ gen = "suspended"
    /\ Len(yielded) < MaxYielded
    /\ GetFramesLoop(cap, pos, reads)
    /\ op' = "next"
    /\ UNCHANGED <<video, disturbed>>
    /\ UNCHANGED <<tracker_vars, validator_vars, notation_vars, cli_vars>>

\* get_frames, lines 92-94: the consumer stops iterating and the suspended
\* generator is closed; its finally clause runs close()
GetFramesAbandon ==
    /\ gen = "suspended"
    /\ gen' = "closed"
    /\ cap' = close_cap(cap)
    /\ video_ret' = None
    /\ op' = "generator_close"
    /\ UNCHANGED <<video, pos, reads, yielded, disturbed>>
    /\ UNCHANGED <<tracker_vars, validator_vars, notation_vars, cli_vars>>

VideoSpecInit ==
    /\ game = CastlingGame
    /\ source = "extractor"
    /\ TrackerInit
    /\ op = "init"
    /\ ValidatorIdle
    /\ NotationInit
    /\ CliInit
    /\ video \in Sources
    /\ VideoInit

VideoNext ==
    \/ Open
    \/ Close
    \/ GetFrame
    \/ GetFrames
    \/ GetFramesFirst
    \/ GetFramesResume
    \/ GetFramesAbandon

VideoSpec == VideoSpecInit /\ [][VideoNext]_vars

----------------------------------------------------------------------------
(* notions the properties are stated with *)

\* the last step was a track_move call that diffed two boards; in the state
\* after it previous_board is the snapshot that was accepted before the call
Diffed == op = "track_move" /\ previous_board # None /\ calls > 0

\* board b with the flags most favourable to move m: the mover's side to
\* move, all castling rights, and the en passant square when a pawn steps
\* diagonally onto an empty square
AsPlayed(b, m) ==
    LET p == b.pieces[m.from_square]
    IN [pieces |-> b.pieces,
        turn |-> piece_color(p),
        castling_rights |-> {A1, H1, A8, H8},
        ep_square |-> IF /\ piece_type(p) = PAWN
                         /\ square_file(m.from_square) # square_file(m.to_square)
                         /\ b.pieces[m.to_square] = 0
                      THEN m.to_square ELSE NoSquare]

\* m is a legal move of the placement of b for the side that owns the piece
LegalIn(b, m) == PushDefined(b, m) /\ m \in legal_moves(AsPlayed(b, m))

\* the placement after m is played on the placement of b
Played(b, m) == push(AsPlayed(b, m), m)

\* some legal move of the placement of prev, for either side and with any
\* flags, gives the placement of new
Explained(prev, new) ==
    \E c \in BOOLEAN :
      \E e \in {NoSquare} \cup {s \in Changes(prev, new) : square_rank(s) \in {2, 5}} :
        LET b == [pieces |-> prev.pieces, turn |-> c,
                  castling_rights |-> {A1, H1, A8, H8}, ep_square |-> e]
        IN \E m \in legal_moves(b) : CompareBoards(push(b, m), new)

\* the board after replaying ms from b, or None when a move has no piece to move
RECURSIVE Replay(_, _)
Replay(b, ms) ==
    IF ms = <<>> THEN b
    ELSE IF ~PushDefined(b, Head(ms)) THEN None
    ELSE Replay(Played(b, Head(ms)), Tail(ms))

----------------------------------------------------------------------------
(* properties *)

\* C1: a track_move call that cannot resolve the transition (non-empty diff,
\* no move returned) leaves the accepted snapshot current_board as it was.
C1_UnresolvedKeepsAccepted ==
    [][(op' = "track_move" /\ current_board # None
        /\ Changes(current_board, arg') # {} /\ ret' = None)
       => current_board' = current_board]_vars

\* C2: replaying the recorded moves from the initial snapshot gives the
\* placement of the accepted snapshot, in every state the tracker reaches.
C2_ReplayGivesAccepted ==
    (initial_board # None /\ current_board # None)
    => LET r == Replay(initial_board, moves)
       IN r # None /\ CompareBoards(r, current_board)

\* C3: every recorded move is legal in the position it is played from, the
\* position reached by replaying the moves recorded before it.
C3_RecordedMovesLegal ==
    initial_board # None
    => \A i \in 1 .. Len(moves) :
         LET b == Replay(initial_board, SubSeq(moves, 1, i - 1))
         IN b # None /\ LegalIn(b, moves[i])

\* C4: a move returned for (previous, current), applied to previous, gives
\* the placement of current.
C4_ReturnedMoveExplainsDiff ==
    (Diffed /\ ret # None)
    => /\ PushDefined(previous_board, ret)
       /\ CompareBoards(Played(previous_board, ret), current_board)

\* C5: the value returned for an unexplained non-empty diff differs from the
\* value returned for an empty diff.
C5_UnresolvedDiffersFromNoChange ==
    (Diffed /\ Changes(previous_board, arg) # {} /\ ~MoveTruthy(ret))
    => ret # DetectMove(previous_board, previous_board)

\* C6: a snapshot with the placement of the accepted snapshot gives the
\* no-change result, every time it is fed; the move list and the accepted
\* placement stay as they were.
C6_NoChangeIdempotent ==
    [][(op' = "track_move" /\ current_board # None
        /\ CompareBoards(arg', current_board))
       => /\ ret' = None
          /\ moves' = moves
          /\ CompareBoards(current_board', current_board)]_vars

\* two calls in a row were fed the placement of the initial snapshot
C6_Witness ==
    /\ Diffed /\ calls = 2 /\ shown.kind = "repeat"
    /\ ret = None /\ moves = <<>>
    /\ CompareBoards(previous_board, initial_board)
    /\ CompareBoards(current_board, initial_board)

\* C7: a snapshot that differs from the accepted one and that no legal move
\* explains gives the unresolved result and leaves the move list as it was.
C7_UnexplainedIsUnresolved ==
    [][(op' = "track_move" /\ current_board # None
        /\ Changes(current_board, arg') # {}
        /\ ~Explained(current_board, arg'))
       => (~MoveTruthy(ret') /\ moves' = moves)]_vars

\* the diff of prev and new is the castling of colour c on the a-side or h-side
CastleDiff(prev, new, c, a_side) ==
    LET k == IF c THEN E1 ELSE E8
        r == IF a_side THEN (IF c THEN A1 ELSE A8) ELSE (IF c THEN H1 ELSE H8)
        kt == IF a_side THEN (IF c THEN C1 ELSE C8) ELSE (IF c THEN G1 ELSE G8)
        rt == IF a_side THEN (IF c THEN D1 ELSE D8) ELSE (IF c THEN F1 ELSE F8)
    IN /\ Changes(prev, new) = {k, r, kt, rt}
       /\ prev.pieces[k] = Piece(KING, c) /\ new.pieces[k] = 0
       /\ prev.pieces[r] = Piece(ROOK, c) /\ new.pieces[r] = 0
       /\ prev.pieces[kt] = 0 /\ new.pieces[kt] = Piece(KING, c)
       /\ prev.pieces[rt] = 0 /\ new.pieces[rt] = Piece(ROOK, c)

\* C8: each of the four castling diffs gives the move of the king from its
\* home square to the square two files away.
C8_CastlingDetected ==
    Diffed =>
      \A c \in BOOLEAN : \A a_side \in BOOLEAN :
        CastleDiff(previous_board, arg, c, a_side)
        => ret = Move(IF c THEN E1 ELSE E8,
                      IF a_side THEN (IF c THEN C1 ELSE C8) ELSE (IF c THEN G1 ELSE G8),
                      0)

\* the diff of prev and new is an en passant capture from f to t
EnPassantDiff(prev, new, f, t) ==
    LET p == prev.pieces[f]
        x == square(square_file(t), square_rank(f))
    IN /\ p # 0 /\ piece_type(p) = PAWN
       /\ Abs(square_file(f) - square_file(t)) = 1
       /\ square_rank(t) - square_rank(f) = (IF piece_color(p) THEN 1 ELSE -1)
       /\ Changes(prev, new) = {f, t, x}
       /\ new.pieces[f] = 0
       /\ prev.pieces[t] = 0 /\ new.pieces[t] = p
       /\ prev.pieces[x] = Piece(PAWN, ~piece_color(p)) /\ new.pieces[x] = 0

\* C9: an en passant diff gives the move of the capturing pawn.
C9_EnPassantDetected ==
    Diffed =>
      \A f \in SQUARES : \A t \in Changes(previous_board, arg) :
        EnPassantDiff(previous_board, arg, f, t) => ret = Move(f, t, 0)

\* the diff of prev and new is a pawn on f promoting on t, by a straight
\* advance or by a capture
PromotionDiff(prev, new, f, t) ==
    LET p == prev.pieces[f]
        c == piece_color(p)
        q == new.pieces[t]
    IN /\ p # 0 /\ piece_type(p) = PAWN
       /\ square_rank(f) = (IF c THEN 6 ELSE 1)
       /\ square_rank(t) = (IF c THEN 7 ELSE 0)
       /\ \/ square_file(f) = square_file(t) /\ prev.pieces[t] = 0
          \/ /\ Abs(square_file(f) - square_file(t)) = 1
             /\ prev.pieces[t] # 0 /\ piece_color(prev.pieces[t]) # c
       /\ Changes(prev, new) = {f, t}
       /\ new.pieces[f] = 0
       /\ q # 0 /\ piece_color(q) = c
       /\ piece_type(q) \in {KNIGHT, BISHOP, ROOK, QUEEN}

\* C10: a promotion diff gives the move from the pawn's square to the
\* promotion square, with the piece type found there as promotion.
C10_PromotionDetected ==
    Diffed =>
      \A f \in Changes(previous_board, arg) : \A t \in Changes(previous_board, arg) :
        PromotionDiff(previous_board, arg, f, t)
        => ret = Move(f, t, piece_type(arg.pieces[t]))

\* the diff of prev and new is the piece on f lifted onto the empty square t
QuietDiff(prev, new, f, t) ==
    /\ prev.pieces[f] # 0 /\ prev.pieces[t] = 0
    /\ new.pieces = Lifted(prev.pieces, Move(f, t, 0))

\* C11: for a legal move of the accepted position that neither captures nor
\* promotes, the snapshot with the moving piece lifted from its origin onto
\* its destination gives the move with that origin and destination and no
\* promotion piece.
C11_QuietMoveDetected ==
    Diffed =>
      \A f \in Changes(previous_board, arg) : \A t \in Changes(previous_board, arg) :
        (QuietDiff(previous_board, arg, f, t) /\ LegalIn(previous_board, Move(f, t, 0)))
        => ret = Move(f, t, 0)

\* a quiet move of Black was shown to a tracker whose boards say White to move
C11_Witness ==
    /\ Diffed /\ source = "extractor" /\ shown.kind = "move"
    /\ QuietDiff(previous_board, arg, shown.move.from_square, shown.move.to_square)
    /\ LegalIn(previous_board, shown.move)
    /\ ~piece_color(arg.pieces[shown.move.to_square])
    /\ ret = shown.move /\ moves # <<>>

\* the diff of prev and new is the piece on f taking the piece on t
CaptureDiff(prev, new, f, t) ==
    LET p == prev.pieces[f]
        x == prev.pieces[t]
    IN /\ p # 0 /\ x # 0 /\ piece_color(x) # piece_color(p)
       /\ new.pieces = Lifted(prev.pieces, Move(f, t, 0))

\* C12: for a legal capture of the accepted position, the snapshot with the
\* origin emptied and the captured piece replaced by the capturing piece
\* gives a move with that origin and destination.
C12_CaptureDetected ==
    Diffed =>
      \A f \in SQUARES : \A t \in Changes(previous_board, arg) :
        (CaptureDiff(previous_board, arg, f, t) /\ LegalIn(previous_board, Move(f, t, 0)))
        => (ret # None /\ ret.from_square = f /\ ret.to_square = t)

----------------------------------------------------------------------------
(* properties of the validator *)

\* the last step was a validate_position call on the board `given`
Validated == op = "validate_position"

\* the returned issue list has an issue with this message and colour
HasIssue(text, color_name) ==
    \E i \in 1 .. Len(verdict.issues) :
        verdict.issues[i].issue = text /\ verdict.issues[i].color = color_name

MaterialIssues ==
    {"Too many pawns", "Too many knights", "Too many bishops", "Too many rooks",
     "Too many queens", "Too many pieces"}

HasMaterialIssue ==
    \E i \in 1 .. Len(verdict.issues) : verdict.issues[i].issue \in MaterialIssues

WrongKings(pieces, color) == Count(pieces, KING, color) # 1

PawnOnBackRank(pieces) ==
    \E s \in Rank1 \cup Rank8 : pieces[s] # 0 /\ piece_type(pieces[s]) = PAWN

\* a colour has more men of a type, or more pieces, than the material ceiling
Excess(pieces) ==
    \E c \in BOOLEAN :
        \/ Count(pieces, PAWN, c) > 8
        \/ \E t \in {KNIGHT, BISHOP, ROOK} : Count(pieces, t, c) > 10
        \/ Count(pieces, QUEEN, c) > 9
        \/ Cardinality(Occupied(pieces, c)) > 16

\* the side that is not to move has its king attacked
NotToMoveInCheck(b) ==
    \E k \in SQUARES : /\ b.pieces[k] = Piece(KING, ~b.turn)
                       /\ is_attacked_by(b.pieces, b.turn, k)

\* C13: validate_position accepts exactly when it returns no issue.
C13_AcceptedIffNoIssues ==
    Validated => (verdict.valid <=> verdict.issues = <<>>)

\* a board that passed the kings, material and pawn checks was rejected for
\* the check state, with that issue in the list
C13_Witness ==
    /\ Validated /\ ~verdict.valid
    /\ ~WrongKings(given.pieces, WHITE) /\ ~WrongKings(given.pieces, BLACK)
    /\ ~Excess(given.pieces) /\ ~PawnOnBackRank(given.pieces)
    /\ HasIssue("The side not to move is in check", "")

\* C14: a snapshot with a king count other than one for a colour, or with a
\* pawn on rank 1 or rank 8, is rejected.
C14_KingsAndPawnsFatal ==
    (Validated /\ (\/ WrongKings(given.pieces, WHITE)
                   \/ WrongKings(given.pieces, BLACK)
                   \/ PawnOnBackRank(given.pieces)))
    => ~verdict.valid

\* a board with one king each and material within the ceiling was rejected
\* for its pawn on the last rank
C14_Witness ==
    /\ Validated /\ ~verdict.valid
    /\ ~WrongKings(given.pieces, WHITE) /\ ~WrongKings(given.pieces, BLACK)
    /\ ~Excess(given.pieces)
    /\ given.pieces[H8] # 0 /\ piece_type(given.pieces[H8]) = PAWN
    /\ HasIssue("Pawn on last rank at", "")

\* C15: a snapshot above the material ceiling is rejected; a snapshot within
\* it, the limits included, gets no material issue.
C15_MaterialCeiling ==
    Validated
    => /\ Excess(given.pieces) => ~verdict.valid
       /\ ~Excess(given.pieces) => ~HasMaterialIssue

\* a board with ten knights of a colour, or with sixteen pieces of a colour,
\* was accepted
C15_Witness ==
    /\ Validated /\ verdict.valid
    /\ \E c \in BOOLEAN : \/ Count(given.pieces, KNIGHT, c) = 10
                          \/ Cardinality(Occupied(given.pieces, c)) = 16

\* C16: every check the snapshot violates has its issue in the returned
\* list: each wrong king count, excess material, a pawn on rank 1 or 8.
C16_AllViolationsReported ==
    Validated
    => /\ WrongKings(given.pieces, WHITE) => HasIssue("Invalid king count", "white")
       /\ WrongKings(given.pieces, BLACK) => HasIssue("Invalid king count", "black")
       /\ Excess(given.pieces) => HasMaterialIssue
       /\ (\E s \in Rank1 : given.pieces[s] # 0 /\ piece_type(given.pieces[s]) = PAWN)
          => HasIssue("Pawn on first rank at", "")
       /\ (\E s \in Rank8 : given.pieces[s] # 0 /\ piece_type(given.pieces[s]) = PAWN)
          => HasIssue("Pawn on last rank at", "")

\* C17: after validate_position the board has the placement and the side to
\* move it had before the call.
C17_BoardUnchanged ==
    Validated => /\ position.pieces = given.pieces
                 /\ position.turn = given.turn

\* a board was rejected because the side not to move is in check, the path
\* on which the turn was toggled and set back
C17_Witness ==
    /\ Validated /\ ~verdict.valid
    /\ NotToMoveInCheck(given)
    /\ HasIssue("The side not to move is in check", "")
    /\ position = given

\* material counted as pawn 1, knight 3, bishop 3, rook 5, queen 9
Points(pieces, color) ==
    Count(pieces, PAWN, color) + 3 * Count(pieces, KNIGHT, color)
    + 3 * Count(pieces, BISHOP, color) + 5 * Count(pieces, ROOK, color)
    + 9 * Count(pieces, QUEEN, color)

Imbalance(pieces) == Abs(Points(pieces, WHITE) - Points(pieces, BLACK))

\* the checks of validate_position, none of which looks at the material balance
Acceptable(b) ==
    /\ ~WrongKings(b.pieces, WHITE) /\ ~WrongKings(b.pieces, BLACK)
    /\ ~Excess(b.pieces)
    /\ ~PawnOnBackRank(b.pieces)
    /\ ~NotToMoveInCheck(b)

\* C18: is_reasonable_position returns false when the material of the two
\* colours differs by more than 15 and true for a one-king-per-side position
\* with a difference of at most 15; validate_position accepts by its own
\* checks alone, whatever is_reasonable_position says.
C18_PlausibilityIsSoft ==
    /\ op = "is_reasonable_position"
       => /\ Imbalance(given.pieces) > 15 => ~reasonable
          /\ (/\ ~WrongKings(given.pieces, WHITE) /\ ~WrongKings(given.pieces, BLACK)
              /\ Imbalance(given.pieces) <= 15) => reasonable
    /\ verdict # None => (verdict.valid <=> Acceptable(given))

\* is_reasonable_position flagged a board that validate_position had accepted
C18_Witness ==
    /\ op = "is_reasonable_position" /\ ~reasonable
    /\ Imbalance(given.pieces) > 15
    /\ verdict # None /\ verdict.valid

\* the four renderers of the notation generator
Renderers == {"get_pgn", "get_fen", "get_move_list", "get_formatted_move_list"}

\* C19: a call of get_move_list, get_formatted_move_list, get_fen or get_pgn
\* leaves the generator's moves and every header value, Result included, as
\* they were before the call
C19_RenderersChangeNothing ==
    [][op' \in Renderers => gen_moves' = gen_moves /\ headers' = headers]_vars

\* the result a generator reports for a move sequence when nothing was
\* rendered on it before: mate favours the mating side, a draw condition
\* gives "1/2-1/2", anything else "*"
ResultOfMoves(ms) == derive_result(InitialHeaders, ms).Result

\* C20: when no result was ever set explicitly, the result in the text of
\* get_pgn (headers included, at least one move) is determined by the current
\* moves alone, whatever was set and rendered before
C20_ResultFromCurrentMoves ==
    [][(/\ op' = "get_pgn"
        /\ ~result_set'
        /\ gen_moves' # <<>>
        /\ rendered'.include_headers)
       => rendered'.pgn.result = ResultOfMoves(gen_moves')]_vars

\* the position after exactly the first k moves of ms, from the starting
\* position
AfterFirst(ms, k) ==
    fen(Positions(StartingPosition, SubSeq(ms, 1, k)), SubSeq(ms, 1, k), k)

Min(x, y) == IF x < y THEN x ELSE y

\* C21: with n moves held, get_fen(k) for k >= 0 is the position after
\* exactly the first min(k, n) moves, and get_fen(None) the position after
\* all n; so every index above n gives what n gives
C21_FenAtClampedIndex ==
    op = "get_fen" =>
        rendered.fen =
            AfterFirst(gen_moves,
                       IF rendered.move_index = None THEN Len(gen_moves)
                       ELSE Min(rendered.move_index.index, Len(gen_moves)))

\* get_fen was called with an index beyond the moves of a generator that
\* holds moves, and returned a position that is not the starting position
C21_Witness ==
    /\ op = "get_fen"
    /\ rendered.move_index # None
    /\ rendered.move_index.index > Len(gen_moves)
    /\ Len(gen_moves) > 1
    /\ rendered.fen.pieces # StartingPosition.pieces

\* out is the move strings ml in numbered groups: group i holds the number i,
\* string 2i-1 as white and string 2i as black, and the last group of an odd
\* list holds no black string
Grouped(out, ml) ==
    /\ Len(out) = (Len(ml) + 1) \div 2
    /\ \A i \in 1 .. Len(out) :
         IF 2 * i <= Len(ml)
         THEN out[i] = [number |-> i, white |-> ml[2 * i - 1], black |-> ml[2 * i]]
         ELSE out[i] = [number |-> i, white |-> ml[2 * i - 1]]

\* C23: get_formatted_move_list gives ceil(n/2) groups "i. w b" in order, the
\* last one "i. w" exactly when n is odd, and nothing for n = 0
C23_FormattedGroups ==
    op = "get_formatted_move_list" =>
        /\ Grouped(rendered.formatted, get_move_list(gen_moves))
        /\ gen_moves = <<>> => rendered.formatted = <<>>

\* an odd number of moves was formatted: the last group is a lone white move
C23_Witness ==
    /\ op = "get_formatted_move_list"
    /\ Len(gen_moves) = 7
    /\ Len(rendered.formatted) = 4
    /\ DOMAIN rendered.formatted[4] = {"number", "white"}
    /\ rendered.formatted[3].black.piece = KNIGHT

\* C24: a track_move call leaves every recorded move in place and in order;
\* it appends the returned move when it returns one and nothing otherwise
C24_MovesAppendOnly ==
    [][op' = "track_move" =>
         IF ret' # None THEN moves' = Append(moves, ret') ELSE moves' = moves]_vars

\* a second move was recorded behind the first
C24_Witness ==
    /\ op = "track_move"
    /\ ret # None
    /\ Len(moves) = 2
    /\ moves[2] = ret
    /\ moves[1] # ret

\* no fast path of _detect_move settles the diff of prev and curr
NoFastPath(prev, curr) ==
    /\ ~ /\ Cardinality(Changes(prev, curr)) = 2
         /\ TwoSquareMove(prev, curr, Changes(prev, curr)) # None
    /\ ~ /\ Cardinality(Changes(prev, curr)) = 4
         /\ CastlingMove(prev, curr, Changes(prev, curr)) # None
    /\ ~ /\ Cardinality(Changes(prev, curr)) = 3
         /\ EnPassantMove(prev, curr, Changes(prev, curr)) # None

\* a diff of four squares in which a king left a square and a king came to a
\* square that is not two files away
KingNotTwoFiles(prev, curr) ==
    /\ Cardinality(Changes(prev, curr)) = 4
    /\ \E f, t \in Changes(prev, curr) :
         /\ piece_type(prev.pieces[f]) = KING /\ curr.pieces[f] = 0
         /\ prev.pieces[t] = 0 /\ piece_type(curr.pieces[t]) = KING
         /\ Abs(square_file(f) - square_file(t)) # 2

\* the legal moves of prev whose result has the placement of curr
Matching(prev, curr) ==
    {m \in legal_moves(prev) : \A s \in SQUARES : push(prev, m).pieces[s] = curr.pieces[s]}

\* r is what a search over the legal moves of prev gives: the matching move
\* (there is at most one, so it is the first), or None
SearchResult(prev, curr, r) ==
    /\ Cardinality(Matching(prev, curr)) <= 1
    /\ IF Matching(prev, curr) = {} THEN r = None ELSE r \in Matching(prev, curr)

\* C27: when no fast path yields a move, and so for a four-square diff whose
\* king is not displaced by two files, track_move returns the legal move of
\* the previous position that gives the new placement, or None when there is
\* none, and the two boards are the ones the call was entered with
C27_FallbackSearch ==
    [][(/\ op' = "track_move"
        /\ current_board # None
        /\ NoFastPath(current_board, arg') \/ KingNotTwoFiles(current_board, arg'))
       => /\ SearchResult(current_board, arg', ret')
          /\ previous_board' = current_board
          /\ current_board' = arg']_vars

\* the fallback found the move after no fast path had settled the diff
C27_Witness ==
    /\ Diffed
    /\ NoFastPath(previous_board, current_board)
    /\ ret # None
    /\ ret \in Matching(previous_board, current_board)

\* a four-square diff with the king one file aside went through the fallback
C27_FourSquares ==
    /\ Diffed
    /\ KingNotTwoFiles(previous_board, current_board)
    /\ ret = None

\* the colour of the man that made the move a call returned, read from the
\* snapshot taken after it
MoverOf(b, m) == piece_color(b.pieces[m.to_square])

\* m is a capture in b that no fast path classifies: a man takes a man of the
\* other colour standing on the destination, without promotion
PlainCapture(b, m) ==
    /\ b.pieces[m.from_square] # 0
    /\ b.pieces[m.to_square] # 0
    /\ piece_color(b.pieces[m.to_square]) # piece_color(b.pieces[m.from_square])
    /\ m.promotion = 0

\* C28: with snapshots that all carry the extractor's default flags, once a
\* move of one colour has been recorded, a snapshot showing a legal capture by
\* the other colour is resolved to that capture
C28_FallbackFollowsGame ==
    [][(/\ source = "extractor"
        /\ op = "track_move" /\ ret # None /\ moves # <<>>
        /\ op' = "track_move"
        /\ shown'.kind = "move"
        /\ PlainCapture(current_board, shown'.move)
        /\ piece_color(current_board.pieces[shown'.move.from_square])
             # MoverOf(current_board, ret))
       => ret' = shown'.move]_vars

\* C22: the placement get_fen() describes at the end of the frame loop is the
\* placement of the snapshot the tracker accepted last, whatever the first
\* accepted snapshot was
C22_FenIsAcceptedSnapshot ==
    (op = "generate_output" /\ detected_positions > 0)
        => rendered.fen.pieces = current_board.pieces

\* the step was a frame in which a board was found
FrameProcessed == op' \in {"rejected", "set_initial_position", "track_move"}

\* C25: a frame whose snapshot validate_position rejects leaves the tracker's
\* boards and moves and the generator's moves as they were; the first
\* accepted snapshot goes to set_initial_position, and no later one does
C25_ValidatorIsTrustBoundary ==
    [][FrameProcessed =>
         /\ ~verdict'.valid =>
              /\ op' = "rejected"
              /\ UNCHANGED <<previous_board, current_board, moves, gen_moves>>
         /\ (verdict'.valid /\ accepted = 0) =>
              /\ op' = "set_initial_position"
              /\ initial_board' = arg'
              /\ current_board' = arg'
         /\ (verdict'.valid /\ accepted > 0) =>
              /\ op' = "track_move"
              /\ initial_board' = initial_board]_vars

\* a snapshot was rejected after the tracker had been given its first board
C25_Witness ==
    /\ op = "rejected"
    /\ ~verdict.valid
    /\ accepted = 1
    /\ current_board # None
    /\ current_board = initial_board
    /\ Changes(current_board, given) # {}

\* C29: the notation of a detected move is asked of the snapshot the move is
\* played from, the call does not raise, and the loop goes on
C29_MoveReportedFromItsPosition ==
    (op = "track_move" /\ ret # None)
        => /\ rendered.board.pieces = previous_board.pieces
           /\ rendered.text # Raised
           /\ status = "running"

\* C30: after every frame the generator's moves are the tracker's moves
C30_GeneratorFollowsTracker ==
    gen_moves = moves

\* a detected move was appended to both lists
C30_Witness ==
    /\ op = "track_move"
    /\ ret # None
    /\ moves = <<ret>>
    /\ gen_moves = <<ret>>

\* the frames of the source, in order
AllFrames == [i \in 1 .. video.frames |-> i - 1]

\* C26: the get_frame calls since open() succeeded returned (True, frame) for
\* the source's N frames in order and (False, None) from then on; get_frame on
\* a capture that is not opened returns (False, None); a generator that ran to
\* its end undisturbed has yielded the N frames in order, and a generator on
\* an opened source that ended has released the capture
C26_FramesInOrderThenNone ==
    /\ \A i \in 1 .. Len(reads) :
         reads[i] = IF i <= video.frames THEN Got(i - 1) ELSE NoFrame
    /\ (op = "get_frame" /\ cap # "opened") => video_ret = NoFrame
    /\ (op = "next" /\ gen = "exhausted" /\ ~disturbed) => yielded = AllFrames
    /\ (op \in {"next", "generator_close"} /\ gen \in {"exhausted", "closed"}
          /\ video.kind = "file") => cap = "released"

\* the generator yielded every frame and released the capture; the source
\* was opened again and get_frame was called until after its last frame
C26_Witness ==
    /\ video.frames = MaxVideoFrames
    /\ gen = "exhausted"
    /\ yielded = AllFrames
    /\ cap = "opened"
    /\ op = "get_frame"
    /\ Len(reads) = MaxVideoFrames + MaxExtraReads
    /\ video_ret = NoFrame

====
